---- MODULE Spec2Model ----
(***************************************************************************)
(* rotation_estimator of examples/motion/rs-motion.cpp: the complementary  *)
(* filter that fuses gyro and accelerometer samples into theta, with the   *)
(* three contexts that use it (the gyro callback, the accel callback and   *)
(* the render loop calling get_theta).                                     *)
(* Also main's two other functions: check_supported_stream, which picks    *)
(* the path, and calc_transform, which the pose path uses instead of the   *)
(* estimator.                                                              *)
(*                                                                         *)
(* Numbers.  Angles are fixed-point integers in milliradians, timestamps   *)
(* are integers in milliseconds, gyro rates are integers in rad/s.  Every  *)
(* float operation of the source that can round (the two products of the   *)
(* complementary filter) rounds to the nearest representable value, ties   *)
(* to even, as IEEE-754 does; the quantum is 1 mrad instead of a binary32  *)
(* ulp.  gyro_data * dt is exact in these units.                           *)
(***************************************************************************)
EXTENDS Integers, FiniteSets, Sequences, TLC

VARIABLES
    theta,          \* float3 theta                      (line 137)
    theta_mtx,      \* std::mutex theta_mtx: its owner   (line 138)
    first,          \* bool first                        (line 142)
    last_ts_gyro,   \* double last_ts_gyro               (line 144)
    pc,             \* position of each context in its call
    gyro_data,      \* process_gyro's parameter
    ts,             \* process_gyro's parameter
    gyro_angle,     \* process_gyro's local
    accel_data,     \* process_accel's parameter
    accel_angle,    \* process_accel's local
    ret,            \* the copy of theta get_theta is returning
    now,            \* the sensor clock: the last timestamp handed out
    budget,         \* calls each context may still make
    committed,      \* history: theta when the last update of it completed
    log,            \* history: every access to first / last_ts_gyro
    hist            \* history: call counts, the values calls started from,
                    \* whether a gyro delta has gone into theta
VARIABLES
    devices,        \* history: for each device check_supported_stream has
                    \* begun, the stream types of the profiles it has met
    stream,         \* int stream in main                        (line 262)
    found_gyro,     \* check_supported_stream's local            (line 229)
    found_accel,    \* check_supported_stream's local            (line 230)
    scan,           \* where check_supported_stream is in its loops
    pose_data,      \* rs2_pose handed to calc_transform         (line 215)
    mat,            \* float mat[16] handed to calc_transform    (line 215)
    called          \* which of main's functions has run

\* the estimator, its callers and their history
estVars == <<theta, theta_mtx, first, last_ts_gyro, pc, gyro_data, ts, gyro_angle,
             accel_data, accel_angle, ret, now, budget, committed, log, hist>>

\* main's own state
mainVars == <<devices, stream, found_gyro, found_accel, scan, pose_data, mat, called>>

vars == <<estVars, mainVars>>

----------------------------------------------------------------------------
(* Bounds of the model *)

MaxGyroCalls == 2
MaxAccelCalls == 2
MaxReaderCalls == 1

(* Program constants *)

\* alpha = 0.98 (line 141), as a fraction AlphaNum / AlphaDen
AlphaNum == 98
AlphaDen == 100
\* PI (line 190), in milliradians
PI == 3142
\* the divisor of (ts - last_ts_gyro) / 1000.0 (line 163): milliseconds per second
MsPerSec == 1000
\* angle units per radian: milliradians, so that rad/s times ms is exact
Scale == MsPerSec

Contexts == {"gyro", "accel", "reader"}

\* a local that is out of scope
Dead == [x |-> 0, y |-> 0, z |-> 0]

\* float3 theta is never initialised by the constructor: it starts indeterminate
UninitTheta == {[x |-> 0, y |-> 0, z |-> 0], [x |-> 11, y |-> -7, z |-> 5]}

\* float3 accel_angle: its y is never assigned (lines 177-181)
UninitFloat == {0, -9}

\* rates (rad/s) the gyro stream delivers
GyroInputs == {[x |-> 3, y |-> 2, z |-> -1], [x |-> -1, y |-> 0, z |-> 2]}

\* time between two gyro frames, in ms
GyroPeriods == {1, 10}

\* the clock when the estimator is constructed
T0 == 1000

\* vectors the accel stream delivers
AccelInputs == {[x |-> 0, y |-> 0, z |-> 1], [x |-> 1, y |-> 0, z |-> 40]}

----------------------------------------------------------------------------
(* Arithmetic *)

\* round n / d (d > 0) to the nearest integer, ties to even
RoundDiv(n, d) ==
    LET q == n \div d
        r == n % d
    IN  IF 2 * r < d THEN q
        ELSE IF 2 * r > d THEN q + 1
        ELSE IF q % 2 = 0 THEN q ELSE q + 1

\* sqrt, rounded to the nearest integer
Sqrt(n) ==
    LET f == CHOOSE r \in 0..n : r * r <= n /\ (r + 1) * (r + 1) > n
    IN  IF n - f * f <= f THEN f ELSE f + 1

\* atan2(y, x) in milliradians, rounded to nearest, on the arguments the
\* bounded inputs produce
Atan2(y, x) ==
    CASE y = 0 /\ x >= 0 -> 0
      [] y = 0 /\ x < 0  -> PI
      [] x = 0 /\ y > 0  -> 1571
      [] x = 0 /\ y < 0  -> -1571
      [] y = 1 /\ x = 40 -> 25
      [] y = x /\ x > 0  -> 785

\* float3::operator*(float) applied to the rates and dt = dt_ms / 1000.0
Times(v, dt_ms) ==
    [x |-> (v.x * dt_ms * Scale) \div MsPerSec,
     y |-> (v.y * dt_ms * Scale) \div MsPerSec,
     z |-> (v.z * dt_ms * Scale) \div MsPerSec]

\* Blend with the accel angle's weight (1 - alpha) forgotten
BlendUnweighted(t, a) ==
    RoundDiv(t * AlphaNum, AlphaDen) + a

\* t * alpha + a * (1 - alpha), each product rounded
Blend(t, a) ==
    RoundDiv(t * AlphaNum, AlphaDen) + RoundDiv(a * (AlphaDen - AlphaNum), AlphaDen)

\* the angles process_accel derives from a sample; y stays indeterminate (u)
AccelAngle(a, u) ==
    [x |-> Atan2(a.x, Sqrt(a.y * a.y + a.z * a.z)),
     y |-> u,
     z |-> Atan2(a.y, a.z)]

----------------------------------------------------------------------------
(* The mutex *)

Lock(t) == theta_mtx = "free" /\ theta_mtx' = t

Unlock(t) == theta_mtx' = "free"

Holds(t) == theta_mtx = t

Goto(t, l) == pc' = [pc EXCEPT ![t] = l]

\* the accesses acc (pairs <<field, "r" | "w">>) context t makes in this step
Touch(t, acc) ==
    log' = log \cup {[ctx |-> t, field |-> a[1], op |-> a[2], locked |-> Holds(t)] : a \in acc}

----------------------------------------------------------------------------
(* main before it has looked for a device or converted a pose *)

\* the enum of lines 18-22
ERROR == "ERROR"
IMU == "IMU"
POSE == "POSE"

\* rs2_stream values a profile can report: those check_supported_stream tests
\* for, and one it does not
RS2_STREAM_POSE == "RS2_STREAM_POSE"
RS2_STREAM_GYRO == "RS2_STREAM_GYRO"
RS2_STREAM_ACCEL == "RS2_STREAM_ACCEL"
RS2_STREAM_DEPTH == "RS2_STREAM_DEPTH"

StreamTypes == {RS2_STREAM_POSE, RS2_STREAM_GYRO, RS2_STREAM_ACCEL, RS2_STREAM_DEPTH}

\* float mat[16] with every element v
Filled(v) == [i \in 0..15 |-> v]

NoPose == [rotation |-> [x |-> 0, y |-> 0, z |-> 0, w |-> 0],
           translation |-> [x |-> 0, y |-> 0, z |-> 0]]

MainIdle ==
    /\ devices = <<>>
    /\ stream = "unset"
    /\ found_gyro = FALSE
    /\ found_accel = FALSE
    /\ scan = [pc |-> "idle", devices |-> 0, sensors |-> 0, profiles |-> 0]
    /\ pose_data = NoPose
    /\ mat = Filled(0)
    /\ called = "none"

----------------------------------------------------------------------------
(* State after construction *)

\* the estimator's members
Est == [theta |-> theta, first |-> first, last_ts_gyro |-> last_ts_gyro]

Hist0 ==
    [gyro_n |-> 0, accel_n |-> 0, since |-> 0,
     prev_v |-> Dead, prev_ts |-> 0, theta0 |-> Dead,
     acq |-> [t \in Contexts |-> 0],
     added |-> FALSE,
     start |-> [theta |-> Dead, first |-> TRUE, last_ts_gyro |-> 0]]

Init ==
    /\ theta \in UninitTheta
    /\ theta_mtx = "free"
    /\ first = TRUE
    /\ last_ts_gyro = 0
    /\ pc = [t \in Contexts |-> "idle"]
    /\ gyro_data = Dead /\ ts = 0 /\ gyro_angle = Dead
    /\ accel_data = Dead /\ accel_angle = Dead
    /\ ret = Dead
    /\ now = T0
    /\ budget = [gyro |-> MaxGyroCalls, accel |-> MaxAccelCalls, reader |-> MaxReaderCalls]
    /\ committed = theta
    /\ log = {}
    /\ MainIdle
    /\ hist = Hist0

----------------------------------------------------------------------------
(* process_gyro (lines 147-172), run by the gyro callback *)

\* the callback hands process_gyro a frame: its rates and its timestamp
GyroCall ==
    /\ pc["gyro"] = "idle" /\ budget["gyro"] > 0
    /\ \E v \in GyroInputs, d \in GyroPeriods :
          /\ gyro_data' = v
          /\ ts' = now + d
          /\ now' = now + d
    /\ budget' = [budget EXCEPT !["gyro"] = @ - 1]
    /\ hist' = [hist EXCEPT !.gyro_n = @ + 1,
                            !.since = IF @ < 2 THEN @ + 1 ELSE @,
                            !.prev_v = gyro_data, !.prev_ts = ts,
                            !.theta0 = theta,
                            !.acq["gyro"] = 0]
    /\ Goto("gyro", "g_first")
    /\ UNCHANGED <<theta, theta_mtx, first, last_ts_gyro, gyro_angle, accel_data,
                   accel_angle, ret, committed, log>>
    /\ UNCHANGED mainVars

GyroReturn == [hist EXCEPT !.prev_v = Dead, !.prev_ts = 0, !.theta0 = Dead]

\* GyroCheckFirst that integrates whatever the flag says
GyroCheckFirstIgnored ==
    /\ pc["gyro"] = "g_first"
    /\ Touch("gyro", {<<"first", "r">>})
    /\ Goto("gyro", "g_dt")
    /\ UNCHANGED <<theta, theta_mtx, first, last_ts_gyro, gyro_data, ts, gyro_angle,
                   accel_data, accel_angle, ret, now, budget, committed, hist>>
    /\ UNCHANGED mainVars

\* line 149: if (first), read without the mutex
GyroCheckFirst ==
    /\ pc["gyro"] = "g_first"
    /\ Touch("gyro", {<<"first", "r">>})
    /\ Goto("gyro", IF first THEN "g_record" ELSE "g_dt")
    /\ UNCHANGED <<theta, theta_mtx, first, last_ts_gyro, gyro_data, ts, gyro_angle,
                   accel_data, accel_angle, ret, now, budget, committed, hist>>
    /\ UNCHANGED mainVars

\* GyroRecordTs that also clears first
GyroRecordTsClearsFirst ==
    /\ pc["gyro"] = "g_record"
    /\ last_ts_gyro' = ts
    /\ first' = FALSE
    /\ Touch("gyro", {<<"last_ts_gyro", "w">>, <<"first", "w">>})
    /\ hist' = GyroReturn
    /\ Goto("gyro", "idle")
    /\ UNCHANGED <<theta, theta_mtx, gyro_data, ts, gyro_angle,
                   accel_data, accel_angle, ret, now, budget, committed>>
    /\ UNCHANGED mainVars

\* lines 151-152: last_ts_gyro = ts; return
GyroRecordTs ==
    /\ pc["gyro"] = "g_record"
    /\ last_ts_gyro' = ts
    /\ Touch("gyro", {<<"last_ts_gyro", "w">>})
    /\ hist' = GyroReturn
    /\ Goto("gyro", "idle")
    /\ UNCHANGED <<theta, theta_mtx, first, gyro_data, ts, gyro_angle,
                   accel_data, accel_angle, ret, now, budget, committed>>
    /\ UNCHANGED mainVars

\* lines 155-167: gyro_angle = gyro_data * ((ts - last_ts_gyro) / 1000.0)
GyroComputeAngle ==
    /\ pc["gyro"] = "g_dt"
    /\ gyro_angle' = Times(gyro_data, ts - last_ts_gyro)
    /\ last_ts_gyro' = ts
    /\ Touch("gyro", {<<"last_ts_gyro", "r">>, <<"last_ts_gyro", "w">>})
    /\ Goto("gyro", "g_lock")
    /\ UNCHANGED <<theta, theta_mtx, first, gyro_data, ts,
                   accel_data, accel_angle, ret, now, budget, committed, hist>>
    /\ UNCHANGED mainVars

\* GyroLock that goes on without the mutex
GyroLockNoGuard ==
    /\ pc["gyro"] = "g_lock"
    /\ hist' = [hist EXCEPT !.acq["gyro"] = @ + 1]
    /\ Goto("gyro", "g_add_x")
    /\ UNCHANGED <<theta, theta_mtx, first, last_ts_gyro, gyro_data, ts, gyro_angle,
                   accel_data, accel_angle, ret, now, budget, committed, log>>
    /\ UNCHANGED mainVars

\* line 170: std::lock_guard<std::mutex> lock(theta_mtx)
GyroLock ==
    /\ pc["gyro"] = "g_lock"
    /\ Lock("gyro")
    /\ hist' = [hist EXCEPT !.acq["gyro"] = @ + 1]
    /\ Goto("gyro", "g_add_x")
    /\ UNCHANGED <<theta, first, last_ts_gyro, gyro_data, ts, gyro_angle,
                   accel_data, accel_angle, ret, now, budget, committed, log>>
    /\ UNCHANGED mainVars

\* line 171: theta.add(-gyro_angle.z, -gyro_angle.y, gyro_angle.x); float3::add
\* is x += t1; y += t2; z += t3
GyroAddX ==
    /\ pc["gyro"] = "g_add_x"
    /\ theta' = [theta EXCEPT !.x = @ + (- gyro_angle.z)]
    /\ hist' = [hist EXCEPT !.added = TRUE]
    /\ Goto("gyro", "g_add_y")
    /\ UNCHANGED <<theta_mtx, first, last_ts_gyro, gyro_data, ts, gyro_angle,
                   accel_data, accel_angle, ret, now, budget, committed, log>>
    /\ UNCHANGED mainVars

GyroAddY ==
    /\ pc["gyro"] = "g_add_y"
    /\ theta' = [theta EXCEPT !.y = @ + (- gyro_angle.y)]
    /\ Goto("gyro", "g_add_z")
    /\ UNCHANGED <<theta_mtx, first, last_ts_gyro, gyro_data, ts, gyro_angle,
                   accel_data, accel_angle, ret, now, budget, committed, log, hist>>
    /\ UNCHANGED mainVars

GyroAddZ ==
    /\ pc["gyro"] = "g_add_z"
    /\ theta' = [theta EXCEPT !.z = @ + gyro_angle.x]
    /\ Goto("gyro", "g_unlock")
    /\ UNCHANGED <<theta_mtx, first, last_ts_gyro, gyro_data, ts, gyro_angle,
                   accel_data, accel_angle, ret, now, budget, committed, log, hist>>
    /\ UNCHANGED mainVars

\* GyroUnlock that returns with the mutex still held
GyroUnlockKeepsMutex ==
    /\ pc["gyro"] = "g_unlock"
    /\ committed' = theta
    /\ gyro_angle' = Dead
    /\ hist' = GyroReturn
    /\ Goto("gyro", "idle")
    /\ UNCHANGED <<theta, theta_mtx, first, last_ts_gyro, gyro_data, ts,
                   accel_data, accel_angle, ret, now, budget, log>>
    /\ UNCHANGED mainVars

\* line 172: the lock_guard goes out of scope
GyroUnlock ==
    /\ pc["gyro"] = "g_unlock"
    /\ Unlock("gyro")
    /\ committed' = theta
    /\ gyro_angle' = Dead
    /\ hist' = GyroReturn
    /\ Goto("gyro", "idle")
    /\ UNCHANGED <<theta, first, last_ts_gyro, gyro_data, ts,
                   accel_data, accel_angle, ret, now, budget, log>>
    /\ UNCHANGED mainVars

process_gyro ==
    \/ GyroCall
    \/ GyroCheckFirst
    \/ GyroRecordTs
    \/ GyroComputeAngle
    \/ GyroLock
    \/ GyroAddX
    \/ GyroAddY
    \/ GyroAddZ
    \/ GyroUnlock

----------------------------------------------------------------------------
(* process_accel (lines 174-203), run by the accel callback *)

\* every step of process_accel is an operation between two gyro calls
AccelStep == [hist EXCEPT !.since = 0]

\* lines 174-181: the callback hands over a sample; accel_angle.z and .x are
\* computed, accel_angle.y is left as it is
AccelCall ==
    /\ pc["accel"] = "idle" /\ budget["accel"] > 0
    /\ \E a \in AccelInputs, u \in UninitFloat :
          /\ accel_data' = a
          /\ accel_angle' = AccelAngle(a, u)
    /\ budget' = [budget EXCEPT !["accel"] = @ - 1]
    /\ hist' = [hist EXCEPT !.accel_n = @ + 1, !.since = 0, !.acq["accel"] = 0]
    /\ Goto("accel", "a_lock")
    /\ UNCHANGED <<theta, theta_mtx, first, last_ts_gyro, gyro_data, ts, gyro_angle,
                   ret, now, committed, log>>
    /\ UNCHANGED mainVars

\* AccelLock that goes on without the mutex
AccelLockNoGuard ==
    /\ pc["accel"] = "a_lock"
    /\ hist' = [hist EXCEPT !.since = 0, !.acq["accel"] = @ + 1]
    /\ Goto("accel", "a_first")
    /\ UNCHANGED <<theta, theta_mtx, first, last_ts_gyro, gyro_data, ts, gyro_angle,
                   accel_data, accel_angle, ret, now, budget, committed, log>>
    /\ UNCHANGED mainVars

\* line 184: std::lock_guard<std::mutex> lock(theta_mtx)
AccelLock ==
    /\ pc["accel"] = "a_lock"
    /\ Lock("accel")
    /\ hist' = [hist EXCEPT !.since = 0, !.acq["accel"] = @ + 1]
    /\ Goto("accel", "a_first")
    /\ UNCHANGED <<theta, first, last_ts_gyro, gyro_data, ts, gyro_angle,
                   accel_data, accel_angle, ret, now, budget, committed, log>>
    /\ UNCHANGED mainVars

\* AccelCheckFirst that takes the initialising branch on every call
AccelCheckFirstAlways ==
    /\ pc["accel"] = "a_first"
    /\ Touch("accel", {<<"first", "r">>})
    /\ hist' = AccelStep
    /\ Goto("accel", "a_clear")
    /\ UNCHANGED <<theta, theta_mtx, first, last_ts_gyro, gyro_data, ts, gyro_angle,
                   accel_data, accel_angle, ret, now, budget, committed>>
    /\ UNCHANGED mainVars

\* line 185: if (first)
AccelCheckFirst ==
    /\ pc["accel"] = "a_first"
    /\ Touch("accel", {<<"first", "r">>})
    /\ hist' = AccelStep
    /\ Goto("accel", IF first THEN "a_clear" ELSE "a_blend_x")
    /\ UNCHANGED <<theta, theta_mtx, first, last_ts_gyro, gyro_data, ts, gyro_angle,
                   accel_data, accel_angle, ret, now, budget, committed>>
    /\ UNCHANGED mainVars

\* line 187: first = false
AccelClearFirst ==
    /\ pc["accel"] = "a_clear"
    /\ first' = FALSE
    /\ Touch("accel", {<<"first", "w">>})
    /\ hist' = AccelStep
    /\ Goto("accel", "a_assign")
    /\ UNCHANGED <<theta, theta_mtx, last_ts_gyro, gyro_data, ts, gyro_angle,
                   accel_data, accel_angle, ret, now, budget, committed>>
    /\ UNCHANGED mainVars

\* line 188: theta = accel_angle
AccelAssignTheta ==
    /\ pc["accel"] = "a_assign"
    /\ theta' = accel_angle
    /\ hist' = AccelStep
    /\ Goto("accel", "a_yaw")
    /\ UNCHANGED <<theta_mtx, first, last_ts_gyro, gyro_data, ts, gyro_angle,
                   accel_data, accel_angle, ret, now, budget, committed, log>>
    /\ UNCHANGED mainVars

\* AccelSetYaw with the assignment of PI left out
AccelSetYawSkipped ==
    /\ pc["accel"] = "a_yaw"
    /\ hist' = AccelStep
    /\ Goto("accel", "a_unlock")
    /\ UNCHANGED <<theta, theta_mtx, first, last_ts_gyro, gyro_data, ts, gyro_angle,
                   accel_data, accel_angle, ret, now, budget, committed, log>>
    /\ UNCHANGED mainVars

\* line 190: theta.y = PI
AccelSetYaw ==
    /\ pc["accel"] = "a_yaw"
    /\ theta' = [theta EXCEPT !.y = PI]
    /\ hist' = AccelStep
    /\ Goto("accel", "a_unlock")
    /\ UNCHANGED <<theta_mtx, first, last_ts_gyro, gyro_data, ts, gyro_angle,
                   accel_data, accel_angle, ret, now, budget, committed, log>>
    /\ UNCHANGED mainVars

\* AccelBlendX that blends theta.y as well
AccelBlendXY ==
    /\ pc["accel"] = "a_blend_x"
    /\ theta' = [theta EXCEPT !.x = Blend(@, accel_angle.x), !.y = Blend(@, accel_angle.y)]
    /\ hist' = AccelStep
    /\ Goto("accel", "a_blend_z")
    /\ UNCHANGED <<theta_mtx, first, last_ts_gyro, gyro_data, ts, gyro_angle,
                   accel_data, accel_angle, ret, now, budget, committed, log>>
    /\ UNCHANGED mainVars

\* line 200: theta.x = theta.x * alpha + accel_angle.x * (1 - alpha)
AccelBlendX ==
    /\ pc["accel"] = "a_blend_x"
    /\ theta' = [theta EXCEPT !.x = Blend(@, accel_angle.x)]
    /\ hist' = AccelStep
    /\ Goto("accel", "a_blend_z")
    /\ UNCHANGED <<theta_mtx, first, last_ts_gyro, gyro_data, ts, gyro_angle,
                   accel_data, accel_angle, ret, now, budget, committed, log>>
    /\ UNCHANGED mainVars

\* line 201: theta.z = theta.z * alpha + accel_angle.z * (1 - alpha)
AccelBlendZ ==
    /\ pc["accel"] = "a_blend_z"
    /\ theta' = [theta EXCEPT !.z = Blend(@, accel_angle.z)]
    /\ hist' = AccelStep
    /\ Goto("accel", "a_unlock")
    /\ UNCHANGED <<theta_mtx, first, last_ts_gyro, gyro_data, ts, gyro_angle,
                   accel_data, accel_angle, ret, now, budget, committed, log>>
    /\ UNCHANGED mainVars

\* line 203: the lock_guard goes out of scope
AccelUnlock ==
    /\ pc["accel"] = "a_unlock"
    /\ Unlock("accel")
    /\ committed' = theta
    /\ accel_angle' = Dead
    /\ hist' = AccelStep
    /\ Goto("accel", "idle")
    /\ UNCHANGED <<theta, first, last_ts_gyro, gyro_data, ts, gyro_angle,
                   accel_data, ret, now, budget, log>>
    /\ UNCHANGED mainVars

process_accel ==
    \/ AccelCall
    \/ AccelLock
    \/ AccelCheckFirst
    \/ AccelClearFirst
    \/ AccelAssignTheta
    \/ AccelSetYaw
    \/ AccelBlendX
    \/ AccelBlendZ
    \/ AccelUnlock

----------------------------------------------------------------------------
(* get_theta (lines 206-210), run by the render loop *)

ReaderCall ==
    /\ pc["reader"] = "idle" /\ budget["reader"] > 0
    /\ budget' = [budget EXCEPT !["reader"] = @ - 1]
    /\ hist' = [hist EXCEPT !.acq["reader"] = 0]
    /\ Goto("reader", "r_lock")
    /\ UNCHANGED <<theta, theta_mtx, first, last_ts_gyro, gyro_data, ts, gyro_angle,
                   accel_data, accel_angle, ret, now, committed, log>>
    /\ UNCHANGED mainVars

\* ReaderLock that goes on without the mutex
ReaderLockNoGuard ==
    /\ pc["reader"] = "r_lock"
    /\ hist' = [hist EXCEPT !.acq["reader"] = @ + 1]
    /\ Goto("reader", "r_copy")
    /\ UNCHANGED <<theta, theta_mtx, first, last_ts_gyro, gyro_data, ts, gyro_angle,
                   accel_data, accel_angle, ret, now, budget, committed, log>>
    /\ UNCHANGED mainVars

\* line 208: std::lock_guard<std::mutex> lock(theta_mtx)
ReaderLock ==
    /\ pc["reader"] = "r_lock"
    /\ Lock("reader")
    /\ hist' = [hist EXCEPT !.acq["reader"] = @ + 1]
    /\ Goto("reader", "r_copy")
    /\ UNCHANGED <<theta, first, last_ts_gyro, gyro_data, ts, gyro_angle,
                   accel_data, accel_angle, ret, now, budget, committed, log>>
    /\ UNCHANGED mainVars

\* line 209: return theta (the copy is made before the guard is released)
ReaderCopy ==
    /\ pc["reader"] = "r_copy"
    /\ ret' = theta
    /\ Goto("reader", "r_unlock")
    /\ UNCHANGED <<theta, theta_mtx, first, last_ts_gyro, gyro_data, ts, gyro_angle,
                   accel_data, accel_angle, now, budget, committed, log, hist>>
    /\ UNCHANGED mainVars

\* line 210: the lock_guard goes out of scope and the caller takes the copy
ReaderUnlock ==
    /\ pc["reader"] = "r_unlock"
    /\ Unlock("reader")
    /\ ret' = Dead
    /\ Goto("reader", "idle")
    /\ UNCHANGED <<theta, first, last_ts_gyro, gyro_data, ts, gyro_angle,
                   accel_data, accel_angle, now, budget, committed, log, hist>>
    /\ UNCHANGED mainVars

get_theta ==
    \/ ReaderCall
    \/ ReaderLock
    \/ ReaderCopy
    \/ ReaderUnlock

----------------------------------------------------------------------------

Next == process_gyro \/ process_accel \/ get_theta

Spec == Init /\ [][Next]_vars

----------------------------------------------------------------------------
(* Fair scheduling: a context that is inside a call takes its next step if
   that step stays possible.  New calls are not forced.  With finitely many
   calls this is all that is needed for a waiter to get the mutex. *)

GyroRuns ==
    \/ GyroCheckFirst \/ GyroRecordTs \/ GyroComputeAngle \/ GyroLock
    \/ GyroAddX \/ GyroAddY \/ GyroAddZ \/ GyroUnlock

AccelRuns ==
    \/ AccelLock \/ AccelCheckFirst \/ AccelClearFirst \/ AccelAssignTheta
    \/ AccelSetYaw \/ AccelBlendX \/ AccelBlendZ \/ AccelUnlock

ReaderRuns == ReaderLock \/ ReaderCopy \/ ReaderUnlock

Fairness ==
    /\ WF_vars(GyroRuns)
    /\ WF_vars(AccelRuns)
    /\ WF_vars(ReaderRuns)

\* calls of each context under FairSpec (one more for process_accel, so that
\* both of its branches run)
FairCalls == 1

InitFair ==
    /\ theta \in UninitTheta
    /\ theta_mtx = "free"
    /\ first = TRUE
    /\ last_ts_gyro = 0
    /\ pc = [t \in Contexts |-> "idle"]
    /\ gyro_data = Dead /\ ts = 0 /\ gyro_angle = Dead
    /\ accel_data = Dead /\ accel_angle = Dead
    /\ ret = Dead
    /\ now = T0
    /\ budget = [gyro |-> FairCalls, accel |-> FairCalls + 1, reader |-> FairCalls]
    /\ committed = theta
    /\ log = {}
    /\ MainIdle
    /\ hist = Hist0

FairSpec == InitFair /\ [][Next]_vars /\ Fairness

----------------------------------------------------------------------------
(* One process_gyro call against one process_accel call, from any state the
   estimator can be in between calls *)

\* values theta takes once initialised: as the first accel sample set it, and
\* after a gyro add
PairThetas == {[x |-> 25, y |-> PI, z |-> 0], [x |-> 26, y |-> 3140, z |-> 3]}

InitPair ==
    /\ first \in BOOLEAN
    /\ theta \in (IF first THEN UninitTheta ELSE PairThetas)
    /\ theta_mtx = "free"
    /\ last_ts_gyro \in {0, T0}
    /\ pc = [t \in Contexts |-> "idle"]
    /\ gyro_data = Dead /\ ts = 0 /\ gyro_angle = Dead
    /\ accel_data = Dead /\ accel_angle = Dead
    /\ ret = Dead
    /\ now = T0
    /\ budget = [t \in Contexts |-> 1]
    /\ committed = theta
    /\ log = {}
    /\ MainIdle
    /\ hist = [Hist0 EXCEPT !.gyro_n = IF last_ts_gyro = 0 THEN 0 ELSE 1,
                            !.accel_n = IF first THEN 0 ELSE 1,
                            !.start = Est]

SpecPair == InitPair /\ [][Next]_vars

\* process_gyro(v, t) run alone on estimator s
GyroEffect(s, v, t) ==
    IF s.first
    THEN [s EXCEPT !.last_ts_gyro = t]
    ELSE LET d == Times(v, t - s.last_ts_gyro)
         IN  [s EXCEPT !.last_ts_gyro = t,
                       !.theta = [x |-> @.x + (- d.z), y |-> @.y + (- d.y), z |-> @.z + d.x]]

\* process_accel(a) run alone on estimator s
AccelEffect(s, a) ==
    LET angle == AccelAngle(a, 0)
    IN  IF s.first
        THEN [s EXCEPT !.first = FALSE,
                       !.theta = [x |-> angle.x, y |-> PI, z |-> angle.z]]
        ELSE [s EXCEPT !.theta = [x |-> Blend(@.x, angle.x), y |-> @.y,
                                  z |-> Blend(@.z, angle.z)]]

----------------------------------------------------------------------------
(* calc_transform (lines 214-224), run by main on the pose path, where no
   rotation_estimator exists *)

NoEstimator ==
    /\ theta = Dead
    /\ theta_mtx = "free"
    /\ first = TRUE
    /\ last_ts_gyro = 0
    /\ pc = [t \in Contexts |-> "idle"]
    /\ gyro_data = Dead /\ ts = 0 /\ gyro_angle = Dead
    /\ accel_data = Dead /\ accel_angle = Dead
    /\ ret = Dead
    /\ now = 0
    /\ budget = [t \in Contexts |-> 0]
    /\ committed = Dead
    /\ log = {}
    /\ hist = Hist0

\* largest magnitude of a quaternion component
QMax == 1

\* pose_data.rotation: any quaternion, unit or not
QuatInputs == [x : -QMax..QMax, y : -QMax..QMax, z : -QMax..QMax, w : -QMax..QMax]

\* pose_data.translation
TransInputs == [x : {0, 5}, y : {0, -3}, z : {0, 2}]

\* what the caller's float mat[16] holds before the call: main's array is not
\* initialised (line 340)
MatInputs == {Filled(0), Filled(7)}

\* CalcTransform that leaves the last element as it was
CalcTransformKeepsLast(pose, m) ==
    LET q == pose.rotation
        t == pose.translation
    IN  [m EXCEPT
          ![0] = -(1 - 2 * q.y * q.y - 2 * q.z * q.z),
          ![4] = (2 * q.x * q.y - 2 * q.z * q.w),
          ![8] = -(2 * q.x * q.z + 2 * q.y * q.w),
          ![12] = t.x,
          ![1] = -(2 * q.x * q.y + 2 * q.z * q.w),
          ![5] = (1 - 2 * q.x * q.x - 2 * q.z * q.z),
          ![9] = -(2 * q.y * q.z - 2 * q.x * q.w),
          ![13] = t.y,
          ![2] = -(2 * q.x * q.z - 2 * q.y * q.w),
          ![6] = (2 * q.y * q.z + 2 * q.x * q.w),
          ![10] = -(1 - 2 * q.x * q.x - 2 * q.y * q.y),
          ![14] = t.z,
          ![3] = 0,
          ![7] = 0,
          ![11] = 0]

\* lines 217-223: the sixteen assignments to mat, on the array m handed in
CalcTransform(pose, m) ==
    LET q == pose.rotation
        t == pose.translation
    IN  [m EXCEPT
          ![0] = -(1 - 2 * q.y * q.y - 2 * q.z * q.z),
          ![4] = (2 * q.x * q.y - 2 * q.z * q.w),
          ![8] = -(2 * q.x * q.z + 2 * q.y * q.w),
          ![12] = t.x,
          ![1] = -(2 * q.x * q.y + 2 * q.z * q.w),
          ![5] = (1 - 2 * q.x * q.x - 2 * q.z * q.z),
          ![9] = -(2 * q.y * q.z - 2 * q.x * q.w),
          ![13] = t.y,
          ![2] = -(2 * q.x * q.z - 2 * q.y * q.w),
          ![6] = (2 * q.y * q.z + 2 * q.x * q.w),
          ![10] = -(1 - 2 * q.x * q.x - 2 * q.y * q.y),
          ![14] = t.z,
          ![3] = 0,
          ![7] = 0,
          ![11] = 0,
          ![15] = 1]

\* main has a pose and an array to convert it into
InitTransform ==
    /\ NoEstimator
    /\ devices = <<>>
    /\ stream = POSE
    /\ found_gyro = FALSE
    /\ found_accel = FALSE
    /\ scan = [pc |-> "returned", devices |-> 0, sensors |-> 0, profiles |-> 0]
    /\ pose_data \in [rotation : QuatInputs, translation : TransInputs]
    /\ mat \in MatInputs
    /\ called = "none"

\* line 342: calc_transform(pose_data, r)
calc_transform ==
    /\ called = "none"
    /\ mat' = CalcTransform(pose_data, mat)
    /\ called' = "calc_transform"
    /\ UNCHANGED <<devices, stream, found_gyro, found_accel, scan, pose_data>>
    /\ UNCHANGED estVars

SpecTransform == InitTransform /\ [][calc_transform]_vars

----------------------------------------------------------------------------
(* check_supported_stream (lines 227-257), run by main before anything else.
   What ctx.query_devices(), dev.query_sensors() and
   sensor.get_stream_profiles() list is decided as the loops reach it. *)

MaxDevices == 2
MaxSensors == 2
MaxProfiles == 2

\* where the scan is: in which loop, and how many devices, sensors of this
\* device and profiles of this sensor it has begun
At(l, d, s, p) == [pc |-> l, devices |-> d, sensors |-> s, profiles |-> p]

\* main starts with no estimator yet
InitStream ==
    /\ NoEstimator
    /\ MainIdle

\* lines 229-233: the two flags are declared false, the context is queried
StreamCall ==
    /\ called = "none"
    /\ called' = "check_supported_stream"
    /\ found_gyro' = FALSE
    /\ found_accel' = FALSE
    /\ scan' = At("devices", 0, 0, 0)
    /\ UNCHANGED <<devices, stream, pose_data, mat>>
    /\ UNCHANGED estVars

\* NextDevice without the reset of lines 237-238
NextDeviceKeepsFlags ==
    /\ scan.pc = "devices" /\ scan.devices < MaxDevices
    /\ devices' = Append(devices, {})
    /\ scan' = At("sensors", scan.devices + 1, 0, 0)
    /\ UNCHANGED <<stream, found_gyro, found_accel, pose_data, mat, called>>
    /\ UNCHANGED estVars

\* lines 234-238: the loop takes the next device and clears both flags
NextDevice ==
    /\ scan.pc = "devices" /\ scan.devices < MaxDevices
    /\ devices' = Append(devices, {})
    /\ found_gyro' = FALSE
    /\ found_accel' = FALSE
    /\ scan' = At("sensors", scan.devices + 1, 0, 0)
    /\ UNCHANGED <<stream, pose_data, mat, called>>
    /\ UNCHANGED estVars

\* line 256: no device is left, return ERROR
NoMoreDevices ==
    /\ scan.pc = "devices"
    /\ stream' = ERROR
    /\ scan' = [scan EXCEPT !.pc = "returned"]
    /\ UNCHANGED <<devices, found_gyro, found_accel, pose_data, mat, called>>
    /\ UNCHANGED estVars

\* line 239: the loop takes the device's next sensor
NextSensor ==
    /\ scan.pc = "sensors" /\ scan.sensors < MaxSensors
    /\ scan' = At("profiles", scan.devices, scan.sensors + 1, 0)
    /\ UNCHANGED <<devices, stream, found_gyro, found_accel, pose_data, mat, called>>
    /\ UNCHANGED estVars

\* lines 253-254: the device has no sensor left; return IMU if both flags are
\* set, else go on to the next device
EndOfDevice ==
    /\ scan.pc = "sensors"
    /\ IF found_gyro /\ found_accel
       THEN /\ stream' = IMU
            /\ scan' = [scan EXCEPT !.pc = "returned"]
       ELSE /\ stream' = stream
            /\ scan' = [scan EXCEPT !.pc = "devices"]
    /\ UNCHANGED <<devices, found_gyro, found_accel, pose_data, mat, called>>
    /\ UNCHANGED estVars

\* lines 241-250: the loop takes the sensor's next profile; a pose profile
\* returns POSE at once, a gyro or accel profile sets its flag
VisitProfile ==
    /\ scan.pc = "profiles" /\ scan.profiles < MaxProfiles
    /\ \E type \in StreamTypes :
          /\ devices' = [devices EXCEPT ![Len(devices)] = @ \cup {type}]
          /\ IF type = RS2_STREAM_POSE
             THEN /\ stream' = POSE
                  /\ scan' = [scan EXCEPT !.pc = "returned", !.profiles = @ + 1]
                  /\ UNCHANGED <<found_gyro, found_accel>>
             ELSE /\ stream' = stream
                  /\ scan' = [scan EXCEPT !.profiles = @ + 1]
                  /\ found_gyro' = IF type = RS2_STREAM_GYRO THEN TRUE ELSE found_gyro
                  /\ found_accel' = IF type = RS2_STREAM_ACCEL THEN TRUE ELSE found_accel
    /\ UNCHANGED <<pose_data, mat, called>>
    /\ UNCHANGED estVars

\* line 252: the sensor has no profile left
EndOfSensor ==
    /\ scan.pc = "profiles"
    /\ scan' = [scan EXCEPT !.pc = "sensors"]
    /\ UNCHANGED <<devices, stream, found_gyro, found_accel, pose_data, mat, called>>
    /\ UNCHANGED estVars

check_supported_stream ==
    \/ StreamCall
    \/ NextDevice
    \/ NoMoreDevices
    \/ NextSensor
    \/ EndOfDevice
    \/ VisitProfile
    \/ EndOfSensor

SpecStream == InitStream /\ [][check_supported_stream]_vars

----------------------------------------------------------------------------
(* C1: get_theta returns an atomic snapshot *)

\* C1. Every value get_theta copies out is a triple theta held when no update
\* of it was half-applied: at the copy no producer is between its lock and its
\* unlock, and the copy equals theta as the last completed update (or the
\* constructor) left it.
C1_SnapshotAtomic ==
    [][(pc["reader"] = "r_copy" /\ pc'["reader"] = "r_unlock")
          => /\ ret' = committed
             /\ pc["gyro"] \notin {"g_add_x", "g_add_y", "g_add_z", "g_unlock"}
             /\ pc["accel"] \notin {"a_first", "a_clear", "a_assign", "a_yaw",
                                     "a_blend_x", "a_blend_z", "a_unlock"}]_vars

\* the reader has its copy while a gyro call and an accel call are both in
\* flight, waiting for the mutex, on an initialised estimator
C1_Witness ==
    /\ pc["reader"] = "r_unlock"
    /\ pc["gyro"] = "g_lock"
    /\ pc["accel"] = "a_lock"
    /\ ~first
    /\ ret = theta

----------------------------------------------------------------------------
(* C2: the first process_gyro call *)

\* C2. The very first process_gyro call ever made leaves theta unchanged and
\* only records the sample's timestamp, whatever process_accel calls completed
\* before it.
C2_FirstGyroOnlyRecords ==
    [][(hist.gyro_n = 1 /\ pc["gyro"] # "idle" /\ pc'["gyro"] # pc["gyro"])
          => /\ theta' = theta
             /\ pc'["gyro"] = "idle" => last_ts_gyro' = ts]_vars

----------------------------------------------------------------------------
(* C3: two consecutive process_gyro calls *)

\* theta0 plus (-v.z*dt, -v.y*dt, v.x*dt), dt = dt_ms / 1000 s, in milliradians
PlusGyroDelta(theta0, v, dt_ms) ==
    [x |-> theta0.x - (v.z * dt_ms * Scale) \div MsPerSec,
     y |-> theta0.y - (v.y * dt_ms * Scale) \div MsPerSec,
     z |-> theta0.z + (v.x * dt_ms * Scale) \div MsPerSec]

\* C3. When two consecutive process_gyro calls carry the same rates v, with
\* timestamps t1 < t2 and no process_accel step since the first of them began,
\* the second returns with theta = theta before it + (-v.z*dt, -v.y*dt, v.x*dt),
\* in every state the two calls can occur in.
C3_SecondGyroAddsDelta ==
    [][(/\ pc["gyro"] # "idle" /\ pc'["gyro"] = "idle"
        /\ hist.since = 2
        /\ gyro_data = hist.prev_v
        /\ hist.prev_ts < ts)
          => theta' = PlusGyroDelta(hist.theta0, gyro_data, ts - hist.prev_ts)]_vars

----------------------------------------------------------------------------
(* C4: the first process_accel call *)

\* C4. The first process_accel call ends with theta = (atan2(ax, sqrt(ay^2 +
\* az^2)), PI, atan2(ay, az)) and the estimator marked initialised, for every
\* input and whatever gyro calls preceded it; for (0, 0, 1) that is (0, PI, 0).
C4_FirstAccelSetsPose ==
    (hist.accel_n = 1 /\ pc["accel"] = "a_unlock")
       => /\ theta = [x |-> Atan2(accel_data.x,
                                  Sqrt(accel_data.y * accel_data.y
                                       + accel_data.z * accel_data.z)),
                      y |-> PI,
                      z |-> Atan2(accel_data.y, accel_data.z)]
          /\ ~first
          /\ accel_data = [x |-> 0, y |-> 0, z |-> 1]
                => theta = [x |-> 0, y |-> 3142, z |-> 0]

\* the first accel call is about to return, after two gyro calls, with a
\* tilted sample
C4_Witness ==
    /\ hist.accel_n = 1 /\ pc["accel"] = "a_unlock"
    /\ hist.gyro_n = 2 /\ pc["gyro"] = "idle"
    /\ accel_data = [x |-> 1, y |-> 0, z |-> 40]
    /\ theta = [x |-> 25, y |-> PI, z |-> 0]

----------------------------------------------------------------------------
(* C5: process_accel leaves yaw alone once initialised *)

\* the first process_accel call has completed its assignment of theta
Initialized == ~first /\ pc["accel"] \notin {"a_assign", "a_yaw"}

\* C5. Once the estimator is initialised no step of process_accel changes
\* theta.y: yaw changes only in steps of process_gyro.
C5_AccelKeepsYaw ==
    [][(Initialized /\ theta'.y # theta.y)
          => (pc'["gyro"] # pc["gyro"] /\ pc'["accel"] = pc["accel"])]_vars

\* a blending call is about to return and yaw still holds what gyro
\* integration made of it
C5_Witness ==
    /\ hist.accel_n = 2 /\ pc["accel"] = "a_unlock"
    /\ Initialized
    /\ theta.y # PI
    /\ theta.x # committed.x

----------------------------------------------------------------------------
(* C6: one gyro call against one accel call *)

PairDone ==
    /\ pc["gyro"] = "idle" /\ budget["gyro"] = 0
    /\ pc["accel"] = "idle" /\ budget["accel"] = 0

AccelThenGyro == GyroEffect(AccelEffect(hist.start, accel_data), gyro_data, ts)

GyroThenAccel == AccelEffect(GyroEffect(hist.start, gyro_data, ts), accel_data)

\* C6. When one process_gyro call and one process_accel call have run
\* concurrently, from any state, theta, first and last_ts_gyro are what one of
\* the two serial orders of the calls produces.
C6_Serializable ==
    PairDone => Est \in {AccelThenGyro, GyroThenAccel}

\* both calls have returned on an estimator that started uninitialised, the
\* two orders differ, and the gyro add landed on the initial pose
C6_Witness ==
    /\ PairDone
    /\ hist.start.first
    /\ AccelThenGyro # GyroThenAccel
    /\ Est = AccelThenGyro

----------------------------------------------------------------------------
(* C7: who touches first and last_ts_gyro *)

\* C7. first and last_ts_gyro are read and written only by process_gyro.
C7_OnlyGyroTouches ==
    \A e \in log : e.ctx = "gyro"

\* C7, amended. last_ts_gyro is read and written only by process_gyro; first
\* is read by process_gyro and read and written by process_accel, and never
\* written by process_gyro; get_theta touches neither.
C7_FieldOwners ==
    /\ [](\A e \in log :
            /\ e.ctx # "reader"
            /\ e.field = "last_ts_gyro" => e.ctx = "gyro"
            /\ (e.field = "first" /\ e.op = "w") => e.ctx = "accel")
    /\ [][/\ first' # first => pc'["accel"] # pc["accel"]
          /\ last_ts_gyro' # last_ts_gyro => pc'["gyro"] # pc["gyro"]]_vars

\* every kind of access has happened, and the reader has run
C7_Witness ==
    /\ \E e \in log : e.ctx = "accel" /\ e.field = "first" /\ e.op = "w"
    /\ \E e \in log : e.ctx = "accel" /\ e.field = "first" /\ e.op = "r"
    /\ \E e \in log : e.ctx = "gyro" /\ e.field = "first" /\ e.op = "r"
    /\ \E e \in log : e.ctx = "gyro" /\ e.field = "last_ts_gyro" /\ e.op = "r"
    /\ \E e \in log : e.ctx = "gyro" /\ e.field = "last_ts_gyro" /\ e.op = "w"
    /\ budget["reader"] = 0 /\ pc["reader"] = "idle"

----------------------------------------------------------------------------
(* C8: first and last_ts_gyro under the mutex *)

\* C8. Every read and write of first and of last_ts_gyro is made by a context
\* holding theta_mtx, and no state has one context about to write first while
\* another is about to read it without the mutex.
C8_FlagAndTsGuarded ==
    /\ \A e \in log : e.locked
    /\ ~(pc["accel"] = "a_clear" /\ pc["gyro"] = "g_first")

----------------------------------------------------------------------------
(* C9: every call returns *)

\* where a context asks for the mutex
LockPoint == [gyro |-> "g_lock", accel |-> "a_lock", reader |-> "r_lock"]

\* the mutex is taken at most once per call, never asked for by its holder,
\* not held by a context that is outside a call or has yet to take it, and
\* some step is possible whenever a call is in progress
LockDiscipline ==
    /\ \A t \in Contexts :
          /\ hist.acq[t] <= 1
          /\ pc[t] = LockPoint[t] => ~Holds(t)
          /\ pc[t] = "idle" => ~Holds(t)
    /\ (\E t \in Contexts : pc[t] # "idle") => ENABLED Next

\* C9. Under fair scheduling every process_gyro, process_accel and get_theta
\* call that is invoked returns (each context is outside a call again and
\* again, which is the same as: whenever it is inside one, it later is not),
\* and the mutex is used with discipline: taken at most once per call, never
\* requested by its holder, released on every return path, and never leading
\* to a state where a call cannot go on.
C9_CallsReturn ==
    /\ []LockDiscipline
    /\ \A t \in Contexts : []<>(pc[t] = "idle")

\* the accel call and the reader both wait for the mutex the gyro call holds
C9_Witness ==
    /\ Holds("gyro") /\ pc["gyro"] = "g_add_y"
    /\ pc["accel"] = "a_lock"
    /\ pc["reader"] = "r_lock"

----------------------------------------------------------------------------
(* C10: the complementary filter's approach to the accel angles *)

Dist(a, b) == IF a >= b THEN a - b ELSE b - a

\* new is not on the other side of target from old
NotAcross(old, new, target) ==
    /\ old > target => new >= target
    /\ old < target => new <= target

BlendsX == pc["accel"] = "a_blend_x" /\ pc'["accel"] = "a_blend_z"

BlendsZ == pc["accel"] = "a_blend_z" /\ pc'["accel"] = "a_unlock"

BeyondRounding(d) == d * (AlphaDen - AlphaNum) > AlphaDen

\* the blend's effect on one component: old value, new value, target
WithinRounding(old, new, target) ==
    /\ NotAcross(old, new, target)
    /\ Dist(new, target) <= Dist(old, target) + 1
    /\ BeyondRounding(Dist(old, target)) => Dist(new, target) < Dist(old, target)

C10_OffTarget ==
    /\ pc["accel"] = "a_unlock" /\ hist.accel_n = 2
    /\ committed.x = accel_angle.x /\ theta.x # accel_angle.x

----------------------------------------------------------------------------
(* C12: the time delta of an integration *)

\* process_gyro computes the delta it is going to add
Integrates == pc["gyro"] = "g_dt" /\ pc'["gyro"] = "g_lock"

\* C12. Every integration uses dt = (ts - ts_prev) / 1000 with ts_prev the
\* timestamp of the gyro sample passed just before this one: there is such a
\* sample, last_ts_gyro holds its timestamp, and the delta is the rates times
\* that dt. The constructor's 0 is never the ts_prev of an integration.
C12_DtFromPrevSample ==
    [][Integrates
          => /\ hist.gyro_n >= 2
             /\ last_ts_gyro = hist.prev_ts
             /\ gyro_angle' = Times(gyro_data, ts - hist.prev_ts)]_vars

----------------------------------------------------------------------------
(* C13: gyro samples before the estimator is initialised *)

\* C13. While no process_accel call has completed the initial assignment of
\* theta, no step of process_gyro changes theta and every process_gyro call that
\* returns leaves last_ts_gyro = ts; as long as the flag is set no gyro delta
\* has gone into theta.
C13_GyroIdleUntilInit ==
    /\ [](first => ~hist.added /\ theta = committed)
    /\ [][(~Initialized /\ pc'["gyro"] # pc["gyro"])
            => /\ theta' = theta
               /\ pc'["gyro"] = "idle" => last_ts_gyro' = ts]_vars

\* two gyro calls have returned before any accel call began: theta is as
\* constructed and the second sample's timestamp is recorded
C13_Witness ==
    /\ first /\ hist.accel_n = 0
    /\ hist.gyro_n = 2 /\ pc["gyro"] = "idle"
    /\ last_ts_gyro = ts /\ ts > T0
    /\ theta \in UninitTheta /\ ~hist.added

----------------------------------------------------------------------------
(* C14: gyro adds against the first process_accel call *)

\* process_gyro is between its lock and its return
GyroAdding == pc["gyro"] \in {"g_add_x", "g_add_y", "g_add_z", "g_unlock"}

\* the first process_accel call is about to assign theta (line 188)
Initializing == pc["accel"] \in {"a_first", "a_clear", "a_assign"} /\ hist.accel_n = 1

\* C14. A gyro delta is added only once the initial assignment of theta (pitch
\* and roll from accel, yaw = PI) has completed: whenever process_gyro is
\* adding, the estimator is initialised, and when the initial assignment is
\* about to be made no gyro delta has gone into theta, so none is overwritten.
C14_AddsAfterInit ==
    /\ GyroAdding => Initialized
    /\ hist.added => Initialized
    /\ Initializing => ~hist.added /\ ~GyroAdding

\* a gyro call that saw the flag cleared waits for the mutex while the first
\* accel call, holding it, has yet to assign theta
C14_Witness ==
    /\ pc["gyro"] = "g_lock"
    /\ pc["accel"] = "a_assign" /\ hist.accel_n = 1
    /\ Holds("accel") /\ ~first
    /\ gyro_angle # Dead

----------------------------------------------------------------------------
(* C15: initialisation happens once *)

\* how many components of theta a step changes
Changed ==
    Cardinality({c \in {"x", "y", "z"} : theta'[c] # theta[c]})

\* C15. first only ever goes from true to false, in the first process_accel
\* call; the assignment theta = accel_angle and theta.y = PI are made in that
\* call only; and once the estimator is initialised every step changes at most
\* one component of theta, yaw only by a gyro delta, and first stays false.
C15_InitOnce ==
    [][/\ first' # first
            => (first /\ ~first' /\ hist.accel_n = 1 /\ pc["accel"] = "a_clear")
       /\ (pc["accel"] \in {"a_clear", "a_assign", "a_yaw"} /\ pc'["accel"] # pc["accel"])
            => hist.accel_n = 1
       /\ Initialized
            => /\ Initialized'
               /\ Changed <= 1
               /\ theta'.y # theta.y => theta'.y = theta.y - gyro_angle.y]_vars

\* the second accel call is about to return from the blending branch, after a
\* gyro delta moved yaw off PI
C15_Witness ==
    /\ hist.accel_n = 2 /\ pc["accel"] = "a_unlock"
    /\ ~first /\ hist.added
    /\ theta.y # PI
    /\ pc["gyro"] = "idle"

----------------------------------------------------------------------------
(* C11: the matrix calc_transform writes *)

\* the rotation matrix of quaternion q, element (row r, column c)
Rotation(q, r, c) ==
    LET R == << << 1 - 2 * (q.y * q.y + q.z * q.z),
                   2 * (q.x * q.y - q.z * q.w),
                   2 * (q.x * q.z + q.y * q.w) >>,
                << 2 * (q.x * q.y + q.z * q.w),
                   1 - 2 * (q.x * q.x + q.z * q.z),
                   2 * (q.y * q.z - q.x * q.w) >>,
                << 2 * (q.x * q.z - q.y * q.w),
                   2 * (q.y * q.z + q.x * q.w),
                   1 - 2 * (q.x * q.x + q.y * q.y) >> >>
    IN  R[r + 1][c + 1]

Identity == [x |-> 0, y |-> 0, z |-> 0, w |-> 1]

ZeroTranslation == [x |-> 0, y |-> 0, z |-> 0]

\* C11. After calc_transform, whatever mat held before: element 4c + r of the
\* column-major matrix is the rotation matrix's element (r, c), negated for
\* columns 0 and 2 and as it is for column 1; elements 12..14 are the
\* translation; elements 3, 7, 11, 15 are 0, 0, 0, 1; and for the identity
\* quaternion with zero translation the diagonal is -1, 1, -1, 1 and every
\* other element is 0.
C11_RenderTransform ==
    called = "calc_transform"
       => LET q == pose_data.rotation
              t == pose_data.translation
          IN  /\ DOMAIN mat = 0..15
              /\ \A r \in 0..2 : /\ mat[r] = - Rotation(q, r, 0)
                                  /\ mat[4 + r] = Rotation(q, r, 1)
                                  /\ mat[8 + r] = - Rotation(q, r, 2)
              /\ mat[12] = t.x /\ mat[13] = t.y /\ mat[14] = t.z
              /\ mat[3] = 0 /\ mat[7] = 0 /\ mat[11] = 0 /\ mat[15] = 1
              /\ (q = Identity /\ t = ZeroTranslation)
                    => \A i \in 0..15 :
                          mat[i] = (CASE i \in {0, 10} -> -1
                                      [] i \in {5, 15} -> 1
                                      [] OTHER -> 0)

\* calc_transform has converted a rotation about x by 90 degrees scaled by 2
\* (x = w = 1) with a translation: every column of the block is distinct
C11_Witness ==
    /\ called = "calc_transform"
    /\ pose_data.rotation = [x |-> 1, y |-> 0, z |-> 0, w |-> 1]
    /\ pose_data.translation = [x |-> 5, y |-> -3, z |-> 2]
    /\ mat = [i \in 0..15 |->
                 <<-1, 0, 0, 0,  0, -1, 2, 0,  0, 2, 1, 0,  5, -3, 2, 1>>[i + 1]]

----------------------------------------------------------------------------
(* C16: what check_supported_stream returns *)

\* device d, as far as the scan has looked at it, has a pose profile
HasPose(d) == RS2_STREAM_POSE \in devices[d]

\* device d, as far as the scan has looked at it, has a gyro profile and an
\* accel profile
HasBoth(d) == RS2_STREAM_GYRO \in devices[d] /\ RS2_STREAM_ACCEL \in devices[d]

Scanned == 1..Len(devices)

\* C16. check_supported_stream goes on scanning only while it has met no pose
\* profile and no device it has finished has both a gyro and an accel profile;
\* it returns POSE exactly when it has met a pose profile (the last thing it
\* looked at), IMU exactly when it has met none and the device it has just
\* finished has both a gyro and an accel profile of its own, and ERROR exactly
\* when the devices have run out with no pose profile and no device having both.
C16_SupportedStream ==
    called = "check_supported_stream"
       => /\ scan.pc # "returned"
              => /\ stream = "unset"
                 /\ \A d \in Scanned : ~HasPose(d)
                 /\ \A d \in Scanned : HasBoth(d) => (d = Len(devices) /\ scan.pc # "devices")
          /\ scan.pc = "returned"
              => /\ stream \in {ERROR, IMU, POSE}
                 /\ stream = POSE <=> \E d \in Scanned : HasPose(d)
                 /\ stream = IMU <=> /\ \A d \in Scanned : ~HasPose(d)
                                     /\ \E d \in Scanned : HasBoth(d)
                 /\ stream = ERROR <=> /\ \A d \in Scanned : ~HasPose(d)
                                       /\ \A d \in Scanned : ~HasBoth(d)
                 /\ \A d \in Scanned : (HasPose(d) \/ HasBoth(d)) => d = Len(devices)

\* gyro on one device, accel on the next, nothing else to scan: ERROR
C16_Witness ==
    /\ scan.pc = "returned" /\ stream = ERROR
    /\ devices = << {RS2_STREAM_GYRO, RS2_STREAM_DEPTH}, {RS2_STREAM_ACCEL} >>

\* POSE is returned from a device that had shown gyro and accel before
C16_PoseFirst ==
    /\ scan.pc = "returned" /\ stream = POSE
    /\ devices = << {RS2_STREAM_GYRO, RS2_STREAM_ACCEL, RS2_STREAM_POSE} >>

\* IMU is returned for the second device, whose gyro and accel profiles belong
\* to different sensors
C16_ImuSecond ==
    /\ scan.pc = "returned" /\ stream = IMU
    /\ Len(devices) = 2 /\ devices[1] = {RS2_STREAM_DEPTH}
    /\ HasBoth(2) /\ scan.sensors = 2

====
